---- MODULE Spec2Model ----
(***************************************************************************)
(* Lab-attendance service: the submitAttendance handler (validation        *)
(* pipeline, roster lookup, insert under a unique index) and the stats     *)
(* handler (Basic auth, roster/attendance join-and-aggregate).             *)
(*                                                                         *)
(* Strings the code inspects character by character (the uid, the date)    *)
(* are sequences of one-character strings; strings it only compares        *)
(* (section codes, names, messages) are TLA+ strings.  A JavaScript value  *)
(* that may be undefined is a record [type, val].                          *)
(***************************************************************************)
EXTENDS Integers, Sequences, FiniteSets, TLC

VARIABLES
    roster,        \* collection "students": sequence of student documents
    attendance,    \* collection "attendance": set of attendance documents
    indexes,       \* indexes that exist on the attendance collection
    cachedClient,  \* module-level cachedClient is set (submitAttendance.js:3)
    env,           \* process.env and the build's hour formatting
    clock,         \* the current instant (Eastern civil time)
    req,           \* submitAttendance invocations, by request id
    stats          \* the stats invocation

vars == <<roster, attendance, indexes, cachedClient, env, clock, req, stats>>

\* Number of submitAttendance invocations that may be in flight together.
NumReq == 2

Reqs == 1 .. NumReq

-----------------------------------------------------------------------------
(* JavaScript values                                                       *)

Undef == [type |-> "undefined", val |-> <<>>]
NaN == [type |-> "NaN", val |-> <<>>]
Str(s) == [type |-> "chars", val |-> s]     \* a string kept as its characters
Txt(s) == [type |-> "text", val |-> s]      \* a string kept whole
Num(n) == [type |-> "number", val |-> n]

\* !v for a value that is undefined or a string
Falsy(v) ==
    \/ v.type = "undefined"
    \/ v.type = "chars" /\ Len(v.val) = 0
    \/ v.type = "text" /\ v.val = ""

Digits == {"0", "1", "2", "3", "4", "5", "6", "7", "8", "9"}

DigitChar(n) == CASE n = 0 -> "0" [] n = 1 -> "1" [] n = 2 -> "2" [] n = 3 -> "3"
                  [] n = 4 -> "4" [] n = 5 -> "5" [] n = 6 -> "6" [] n = 7 -> "7"
                  [] n = 8 -> "8" [] n = 9 -> "9"

\* /\d+/.test(s): an unanchored pattern accepts any string holding a digit
TestSomeDigit(s) == \E i \in 1 .. Len(s) : s[i] \in Digits

\* /^\d+$/.test(s)
TestDigitsOnly(s) == Len(s) >= 1 /\ \A i \in 1 .. Len(s) : s[i] \in Digits

-----------------------------------------------------------------------------
(* Time: an instant is a civil Eastern time [day, hour, minute]; day k is  *)
(* the k-th day counted from Friday 2026-02-06.                            *)

WeekdayNames == <<"Fri", "Sat", "Sun", "Mon", "Tue", "Wed", "Thu">>

Pad2(n) == <<DigitChar(n \div 10), DigitChar(n % 10)>>

\* Intl.DateTimeFormat(...).formatToParts(date) collected by type.  With
\* hour12: false some builds print midnight as hour "24", others as "00".
getEasternTimeParts(t, h24) ==
    [weekday |-> WeekdayNames[((t.day - 1) % 7) + 1],
     year    |-> <<"2", "0", "2", "6">>,
     month   |-> <<"0", "2">>,
     day     |-> Pad2(5 + t.day),
     hour    |-> IF t.hour = 0 /\ h24 THEN 24 ELSE t.hour,
     minute  |-> t.minute]

\* `${parts.year}-${parts.month}-${parts.day}`
DateStr(parts) == parts.year \o <<"-">> \o parts.month \o <<"-">> \o parts.day

Before(a, b) ==
    \/ a.day < b.day
    \/ a.day = b.day /\ a.hour < b.hour
    \/ a.day = b.day /\ a.hour = b.hour /\ a.minute < b.minute

-----------------------------------------------------------------------------
(* submitAttendance.js                                                     *)

SectionCodes == {"0201", "0202", "0203"}

WINDOWS == [s \in SectionCodes |->
              CASE s = "0201" -> [start |-> 12, end |-> 13]
                [] s = "0202" -> [start |-> 13, end |-> 14]
                [] s = "0203" -> [start |-> 14, end |-> 15]]

\* Property names every object literal inherits from Object.prototype; each
\* holds a function (or object), so a lookup of them is truthy.
InheritedKeys == {"constructor", "toString", "valueOf", "hasOwnProperty"}

\* WINDOWS[section]: a property read, which follows the prototype chain.
\* found is the truthiness of the result; start and end are its properties.
WindowsLookup(section) ==
    IF section \in SectionCodes
    THEN [found |-> TRUE, start |-> Num(WINDOWS[section].start),
                          end |-> Num(WINDOWS[section].end)]
    ELSE IF section \in InheritedKeys
    THEN [found |-> TRUE, start |-> Undef, end |-> Undef]
    ELSE [found |-> FALSE, start |-> Undef, end |-> Undef]

\* a < b on numbers where a side may be NaN (undefined * 60): NaN compares
\* false with everything
LessThan(a, b) == a.type = "number" /\ b.type = "number" /\ a.val < b.val
AtLeast(a, b) == a.type = "number" /\ b.type = "number" /\ a.val >= b.val
TimesSixty(v) == IF v.type = "number" THEN Num(v.val * 60) ELSE NaN

(* Responses.  error is a tuple: the message, then what it interpolates.   *)
NoResp == [statusCode |-> 0, error |-> <<>>, message |-> "", date |-> <<>>, thrown |-> ""]
Fail(code, err) == [statusCode |-> code, error |-> err, message |-> "", date |-> <<>>, thrown |-> ""]
Success(dateStr) ==
    [statusCode |-> 200, error |-> <<>>, message |-> "Attendance recorded successfully!",
     date |-> dateStr, thrown |-> ""]
Thrown(what) == [statusCode |-> 0, error |-> <<>>, message |-> "", date |-> <<>>, thrown |-> what]

ErrMethod == <<"Method not allowed">>
ErrJson == <<"Invalid JSON">>
ErrMissing == <<"Missing UID or section">>
ErrNumeric == <<"UID must be numeric">>
ErrSection == <<"Invalid section">>
ErrFriday == <<"Attendance can only be submitted on Fridays">>
ErrWindow(section, window) ==
    <<"Outside attendance window for section", section, window.start, window.end>>
ErrRoster == <<"UID not found in roster">>
ErrMismatch == <<"Section does not match your registered section">>
ErrDuplicate == <<"Attendance already submitted for today">>

\* Lines 78-91 with the half-open test replaced by a closed one
OutsideWindowClosed(parts, section) ==
    LET window == WindowsLookup(section)
        currentMinutes == Num(parts.hour * 60 + parts.minute)
        startMin == TimesSixty(window.start)
        endMin == TimesSixty(window.end)
    IN  LessThan(currentMinutes, startMin) \/ LessThan(endMin, currentMinutes)

\* currentMinutes < startMin || currentMinutes >= endMin
OutsideWindow(parts, section) ==
    LET window == WindowsLookup(section)
        currentMinutes == Num(parts.hour * 60 + parts.minute)
        startMin == TimesSixty(window.start)
        endMin == TimesSixty(window.end)
    IN  LessThan(currentMinutes, startMin) \/ AtLeast(currentMinutes, endMin)

\* The uid test of line 57 with the pattern's anchors dropped
UidRejectedUnanchored(uid) == ~TestSomeDigit(uid.val)

\* !/^\d+$/.test(uid)
UidRejected(uid) == ~TestDigitsOnly(uid.val)

\* The synchronous part of the handler, lines 40-92: the response it returns
\* (or the exception it throws), or NoResp when every check passes.
Validate(event, parts, bypassTime) ==
    IF event.httpMethod # "POST" THEN Fail(405, ErrMethod)
    ELSE IF event.body.kind = "unparsable" THEN Fail(400, ErrJson)
    ELSE IF event.body.kind = "null" THEN Thrown("TypeError")
    ELSE LET uid == event.body.uid
             section == event.body.section
         IN  IF Falsy(uid) \/ Falsy(section) THEN Fail(400, ErrMissing)
             ELSE IF UidRejected(uid) THEN Fail(400, ErrNumeric)
             ELSE IF ~WindowsLookup(section.val).found THEN Fail(400, ErrSection)
             ELSE IF bypassTime = "true" THEN NoResp
             ELSE IF parts.weekday # "Fri" THEN Fail(400, ErrFriday)
             ELSE IF OutsideWindow(parts, section.val)
                  THEN Fail(400, ErrWindow(section.val, WindowsLookup(section.val)))
             ELSE NoResp

-----------------------------------------------------------------------------
(* The document store (MongoDB collections "students" and "attendance")    *)

\* collection.findOne({ uid }): the first document whose uid equals the value
\* given (equality is by type, so only a string can match a stored string)
FindOne(coll, uid) ==
    LET hits == {i \in 1 .. Len(coll) : uid.type = "chars" /\ coll[i].uid = uid.val}
    IN  IF hits = {} THEN [found |-> FALSE, doc |-> Undef]
        ELSE [found |-> TRUE, doc |-> coll[CHOOSE i \in hits : \A j \in hits : i <= j]]

\* The two createIndex calls of lines 112-113 without unique: true
AttendanceIndexesNotUnique ==
    <<[key |-> <<"uid", "date">>, unique |-> FALSE],
      [key |-> <<"date", "section">>, unique |-> FALSE]>>

\* createIndex({uid: 1, date: 1}, {unique: true}); createIndex({date: 1, section: 1})
AttendanceIndexes ==
    <<[key |-> <<"uid", "date">>, unique |-> TRUE],
      [key |-> <<"date", "section">>, unique |-> FALSE]>>

SameKey(ix, a, b) == \A i \in 1 .. Len(ix.key) : a[ix.key[i]] = b[ix.key[i]]

\* insertOne(doc) is refused with code 11000 when a unique index holds its key
DuplicateKey(coll, idxs, doc) ==
    \E ix \in idxs : ix.unique /\ \E d \in coll : SameKey(ix, d, doc)

\* createIndex of a unique index is refused with code 11000 when the
\* collection already holds two documents with one key
IndexBuildFails(coll, ix) ==
    ix.unique /\ \E a \in coll, b \in coll : a # b /\ SameKey(ix, a, b)

-----------------------------------------------------------------------------
(* One invocation of the submitAttendance handler, cut at its awaits       *)

Idle == [pc |-> "idle", event |-> [httpMethod |-> "", body |-> [kind |-> "", uid |-> Undef, section |-> Undef]],
         now |-> [day |-> 0, hour |-> 0, minute |-> 0], dateStr |-> <<>>,
         resp |-> NoResp, ops |-> <<>>, overlap |-> {}]

InFlight(q) == req[q].pc \notin {"idle", "done"}

Finish(r, response, op) ==
    req' = [req EXCEPT ![r].pc = "done", ![r].resp = response,
                       ![r].ops = IF op = "" THEN @ ELSE Append(@, op)]

Goto(r, pc, op) ==
    req' = [req EXCEPT ![r].pc = pc, ![r].ops = IF op = "" THEN @ ELSE Append(@, op)]

\* Lines 37-92: the request arrives and is validated, up to `await getDb()`
\* (new Date() reads the clock, which has moved on to t)
\* for some event of events, at some instant of times
Receive(r, events, times) ==
    /\ req[r].pc = "idle"
    /\ \E event \in events, t \in times :
         /\ ~Before(t, clock)
         /\ clock' = t
         /\ LET parts == getEasternTimeParts(t, env.h24)
                v == Validate(event, parts, env.DEV_BYPASS_TIME)
            IN  req' = [req EXCEPT ![r] =
                          [pc |-> IF v = NoResp THEN "getDb" ELSE "done",
                           event |-> event, now |-> t, dateStr |-> DateStr(parts),
                           resp |-> v, ops |-> <<>>,
                           overlap |-> {q \in Reqs : InFlight(q)}]]
    /\ UNCHANGED <<roster, attendance, indexes, cachedClient, env, stats>>

\* Lines 5-11 and 95: getDb connects once and caches the client
GetDb(r) ==
    /\ req[r].pc = "getDb"
    /\ cachedClient' = TRUE
    /\ Goto(r, "findOne", IF cachedClient THEN "" ELSE "connect")
    /\ UNCHANGED <<roster, attendance, indexes, env, clock, stats>>

\* Lines 98-101 alone: the roster lookup without the section comparison of
\* lines 102-108
FindStudentAnySection(r) ==
    /\ req[r].pc = "findOne"
    /\ LET student == FindOne(roster, req[r].event.body.uid)
       IN  IF ~student.found
           THEN Finish(r, Fail(400, ErrRoster), "students.findOne")
           ELSE Goto(r, "createIndex1", "students.findOne")
    /\ UNCHANGED <<roster, attendance, indexes, cachedClient, env, clock, stats>>

\* Lines 98-108: the roster lookup
FindStudent(r) ==
    /\ req[r].pc = "findOne"
    /\ LET student == FindOne(roster, req[r].event.body.uid)
       IN  IF ~student.found
           THEN Finish(r, Fail(400, ErrRoster), "students.findOne")
           ELSE IF student.doc.section # req[r].event.body.section.val
           THEN Finish(r, Fail(400, ErrMismatch), "students.findOne")
           ELSE Goto(r, "createIndex1", "students.findOne")
    /\ UNCHANGED <<roster, attendance, indexes, cachedClient, env, clock, stats>>

\* Lines 112-113 (and the catch of 121-128): the i-th createIndex call
CreateIndex(r, i) ==
    /\ req[r].pc = IF i = 1 THEN "createIndex1" ELSE "createIndex2"
    /\ IF IndexBuildFails(attendance, AttendanceIndexes[i])
       THEN /\ Finish(r, Fail(409, ErrDuplicate), "attendance.createIndex")
            /\ UNCHANGED indexes
       ELSE /\ indexes' = indexes \cup {AttendanceIndexes[i]}
            /\ Goto(r, IF i = 1 THEN "createIndex2" ELSE "insertOne", "attendance.createIndex")
    /\ UNCHANGED <<roster, attendance, cachedClient, env, clock, stats>>

\* The document of lines 115-120; _id is the ObjectId the driver generates
NewRecord(r) ==
    [_id |-> r, uid |-> req[r].event.body.uid.val, date |-> req[r].dateStr,
     section |-> req[r].event.body.section.val, timestamp |-> req[r].now]

\* Lines 115-136 as an upsert: the document is written whether or not one
\* with its key exists, and the duplicate is reported afterwards
InsertOneThenCheck(r) ==
    /\ req[r].pc = "insertOne"
    /\ attendance' = attendance \cup {NewRecord(r)}
    /\ IF DuplicateKey(attendance, indexes, NewRecord(r))
       THEN Finish(r, Fail(409, ErrDuplicate), "attendance.insertOne")
       ELSE Finish(r, Success(req[r].dateStr), "attendance.insertOne")
    /\ UNCHANGED <<roster, indexes, cachedClient, env, clock, stats>>

\* Lines 115-136: the insert, the duplicate-key catch and the success response
InsertOne(r) ==
    /\ req[r].pc = "insertOne"
    /\ IF DuplicateKey(attendance, indexes, NewRecord(r))
       THEN /\ Finish(r, Fail(409, ErrDuplicate), "attendance.insertOne")
            /\ UNCHANGED attendance
       ELSE /\ attendance' = attendance \cup {NewRecord(r)}
            /\ Finish(r, Success(req[r].dateStr), "attendance.insertOne")
    /\ UNCHANGED <<roster, indexes, cachedClient, env, clock, stats>>

\* Lines 95-98, 112-115, 129: a store operation fails with an error other
\* than 11000 and has no effect; the handler throws it on
StoreError(r) ==
    /\ InFlight(r)
    /\ Finish(r, Thrown("StoreError"), "")
    /\ UNCHANGED <<roster, attendance, indexes, cachedClient, env, clock, stats>>

-----------------------------------------------------------------------------
(* Inputs                                                                  *)

Student(uid, name, section, email) ==
    [uid |-> uid, name |-> name, section |-> section, email |-> email]

\* The roster the submissions run against
ClassRoster ==
    <<Student(<<"1">>, "Ada", "0201", Txt("ada@umd.edu")),
      Student(<<"2">>, "Ben", "0202", Undef),
      Student(<<"3">>, "Cy", "0203", Txt("cy@umd.edu"))>>

At(d, h, m) == [day |-> d, hour |-> h, minute |-> m]

Body(uid, section) == [kind |-> "object", uid |-> uid, section |-> section]
NoBody(kind) == [kind |-> kind, uid |-> Undef, section |-> Undef]
Post(body) == [httpMethod |-> "POST", body |-> body]

\* The stats invocation before its request arrives
StatsStart ==
    [pc |-> "idle", header |-> [scheme |-> "", decoded |-> <<>>], students |-> <<>>,
     resp |-> [statusCode |-> 0, wwwAuthenticate |-> "", body |-> "", thrown |-> "",
               report |-> <<>>],
     ops |-> <<>>]

Envs == [DEV_BYPASS_TIME : {"", "true"}, h24 : BOOLEAN,
         ADMIN_USER : {<<"t", "a">>}, ADMIN_PASS : {<<"p", ":", "w">>}]

-----------------------------------------------------------------------------
(* Spec: concurrent submissions against an empty attendance store          *)

ConcTimes == {At(1, 12, 0), At(8, 12, 0)}

ConcEvents ==
    {Post(Body(Str(<<"1">>), Txt("0201"))), Post(Body(Str(<<"1">>), Txt("0202"))),
     Post(Body(Str(<<"2">>), Txt("0202"))),
     [httpMethod |-> "GET", body |-> Body(Str(<<"1">>), Txt("0201"))]}

Init ==
    /\ roster = ClassRoster
    /\ attendance = {}
    /\ indexes = {}
    /\ cachedClient = FALSE
    /\ env \in {e \in Envs : ~e.h24}
    /\ clock = At(1, 0, 0)
    /\ req = [r \in Reqs |-> Idle]
    /\ stats = StatsStart

Next ==
    \/ \E r \in Reqs : Receive(r, ConcEvents, ConcTimes)
    \/ \E r \in Reqs : GetDb(r)
    \/ \E r \in Reqs : FindStudent(r)
    \/ \E r \in Reqs, i \in 1 .. 2 : CreateIndex(r, i)
    \/ \E r \in Reqs : InsertOne(r)
    \/ \E r \in Reqs : StoreError(r)

Spec == Init /\ [][Next]_vars

-----------------------------------------------------------------------------
(* SpecOne: one submission, over every kind of request body and the hours  *)
(* around each window, against a store an earlier submission has filled    *)

\* Longest uid the submissions carry
MaxUidLen == 2

UidChars == {"1", "2", "a"}

RECURSIVE StringsUpTo(_)
StringsUpTo(n) ==
    IF n = 0 THEN {<<>>}
    ELSE LET shorter == StringsUpTo(n - 1)
         IN  shorter \cup {Append(s, c) : s \in shorter, c \in UidChars}

UidInputs == {Undef} \cup {Str(s) : s \in StringsUpTo(MaxUidLen)}

SectionInputs ==
    {Undef} \cup {Txt(s) : s \in {"", "0201", "0202", "0203", "0204", "constructor"}}

Bodies ==
    {NoBody("unparsable"), NoBody("null")}
      \cup {Body(u, s) : u \in UidInputs, s \in SectionInputs}

Events == [httpMethod : {"POST", "GET"}, body : Bodies]

\* Friday, Saturday and the next Friday; the hours from 11 to 15 and midnight
Times == {At(d, h, m) : d \in {1, 2, 8}, h \in {0, 11, 12, 13, 14, 15}, m \in {0, 1, 59}}

\* The record student 1 left at noon of the first Friday
EarlierRecord ==
    [_id |-> 0, uid |-> <<"1">>, date |-> DateStr(getEasternTimeParts(At(1, 12, 0), FALSE)),
     section |-> "0201", timestamp |-> At(1, 12, 0)]

InitOne ==
    /\ roster = ClassRoster
    /\ \/ attendance = {} /\ indexes = {} /\ clock = At(1, 0, 0)
       \/ /\ attendance = {EarlierRecord}
          /\ indexes = {AttendanceIndexes[i] : i \in 1 .. 2}
          /\ clock = At(1, 12, 0)
    /\ cachedClient = FALSE
    /\ env \in Envs
    /\ req = [r \in Reqs |-> Idle]
    /\ stats = StatsStart

NextOne ==
    \/ Receive(1, Events, Times)
    \/ GetDb(1)
    \/ FindStudent(1)
    \/ \E i \in 1 .. 2 : CreateIndex(1, i)
    \/ InsertOne(1)
    \/ StoreError(1)

SpecOne == InitOne /\ [][NextOne]_vars

-----------------------------------------------------------------------------
(* SpecAny: submissions, one after another or together, that name a        *)
(* student of the roster, an identity outside it, another student's        *)
(* section and an inherited property name, on a Friday and on a Saturday,  *)
(* from an empty store                                                     *)

\* Student 1 in the student's own section, in another student's section and
\* under an inherited property name; identity 9, which the roster lacks
AnyEvents ==
    {Post(Body(Str(<<"1">>), Txt("0201"))), Post(Body(Str(<<"1">>), Txt("0202"))),
     Post(Body(Str(<<"1">>), Txt("constructor"))),
     Post(Body(Str(<<"9">>), Txt("0201")))}

\* Friday noon and Saturday noon
AnyTimes == {At(1, 12, 0), At(2, 12, 0)}

InitAny ==
    /\ roster = ClassRoster
    /\ attendance = {}
    /\ indexes = {}
    /\ cachedClient = FALSE
    /\ env \in {e \in Envs : ~e.h24}
    /\ clock = At(1, 0, 0)
    /\ req = [r \in Reqs |-> Idle]
    /\ stats = StatsStart

NextAny ==
    \/ \E r \in Reqs : Receive(r, AnyEvents, AnyTimes)
    \/ \E r \in Reqs : GetDb(r)
    \/ \E r \in Reqs : FindStudent(r)
    \/ \E r \in Reqs, i \in 1 .. 2 : CreateIndex(r, i)
    \/ \E r \in Reqs : InsertOne(r)
    \/ \E r \in Reqs : StoreError(r)

SpecAny == InitAny /\ [][NextAny]_vars

-----------------------------------------------------------------------------
(* stats.js: the Basic auth check                                          *)

\* Index of the first ":" of s, or 0
FirstColon(s) ==
    LET at == {i \in 1 .. Len(s) : s[i] = ":"}
    IN  IF at = {} THEN 0 ELSE CHOOSE i \in at : \A j \in at : i <= j

\* const [user, ...passParts] = decoded.split(":"); pass = passParts.join(":")
SplitCredentials(decoded) ==
    LET c == FirstColon(decoded)
    IN  IF c = 0 THEN [user |-> decoded, pass |-> <<>>]
        ELSE [user |-> SubSeq(decoded, 1, c - 1),
              pass |-> SubSeq(decoded, c + 1, Len(decoded))]

\* Line 30 with && for ||
CredentialsRejectedBoth(user, pass) == user # env.ADMIN_USER /\ pass # env.ADMIN_PASS

\* user !== process.env.ADMIN_USER || pass !== process.env.ADMIN_PASS
CredentialsRejected(user, pass) == user # env.ADMIN_USER \/ pass # env.ADMIN_PASS

Unauthorized(body) ==
    [statusCode |-> 401, wwwAuthenticate |-> "Basic realm=\"TA Dashboard\"", body |-> body,
     thrown |-> "", report |-> <<>>]

\* Lines 16-36.  The authorization header is [scheme, decoded]: the text up to
\* and including the first space, and what the rest decodes to from base64.
\* An absent header reads as "", which does not start with "Basic ".
AuthCheck(header) ==
    IF header.scheme # "Basic " THEN Unauthorized("Unauthorized")
    ELSE LET c == SplitCredentials(header.decoded)
         IN  IF CredentialsRejected(c.user, c.pass)
             THEN Unauthorized("Invalid credentials")
             ELSE [statusCode |-> 0, wwwAuthenticate |-> "", body |-> "", thrown |-> "",
                   report |-> <<>>]

-----------------------------------------------------------------------------
(* stats.js: the report                                                    *)

CharCode(c) ==
    CASE c = "-" -> 45 [] c = "|" -> 124
      [] c = "0" -> 48 [] c = "1" -> 49 [] c = "2" -> 50 [] c = "3" -> 51 [] c = "4" -> 52
      [] c = "5" -> 53 [] c = "6" -> 54 [] c = "7" -> 55 [] c = "8" -> 56 [] c = "9" -> 57

\* a < b as Array.prototype.sort() orders strings: by UTF-16 code units
RECURSIVE StrLess(_, _)
StrLess(a, b) ==
    IF Len(b) = 0 THEN FALSE
    ELSE IF Len(a) = 0 THEN TRUE
    ELSE IF CharCode(Head(a)) # CharCode(Head(b)) THEN CharCode(Head(a)) < CharCode(Head(b))
    ELSE StrLess(Tail(a), Tail(b))

\* [...dateSet].sort()
RECURSIVE SortStrings(_)
SortStrings(S) ==
    IF S = {} THEN <<>>
    ELSE LET least == CHOOSE x \in S : \A y \in S \ {x} : StrLess(x, y)
         IN  <<least>> \o SortStrings(S \ {least})

\* `${uid}|${date}`
Key(uid, date) == uid \o <<"|">> \o date

\* attendedSet, lines 53-54
AttendedSet(att) == {Key(a.uid, a.date) : a \in att}

\* dateSet, lines 57 and 61: every record's date, whatever its section
DateSet(att) == {a.date : a \in att}

\* Lines 60-65 counting every record of the date, whatever its section
SectionCountAnySection(att, sec, d) == Cardinality({a \in att : a.date = d})

\* sectionData[sec][d] || 0, lines 58-65 and 72: the records of section sec
\* dated d.  (A record whose section names an inherited property passes the
\* guard of line 62 too, and is counted on Object itself, which no one reads.)
SectionCount(att, sec, d) == Cardinality({a \in att : a.section = sec /\ a.date = d})

\* students.length in place of the filter of line 73
RosterTotalAll(students, sec) == Len(students)

\* students.filter((s) => s.section === sec).length
RosterTotal(students, sec) == Len(SelectSeq(students, LAMBDA st : st.section = sec))

\* s.email || ""
EmailOrEmpty(st) == IF Falsy(st.email) THEN "" ELSE st.email.val

\* Line 82 without the negation
AbsencesAttended(st, dates, attended) ==
    Len(SelectSeq(dates, LAMBDA d : Key(st.uid, d) \in attended))

\* dates.filter((d) => !attendedSet.has(`${s.uid}|${d}`)).length
Absences(st, dates, attended) ==
    Len(SelectSeq(dates, LAMBDA d : Key(st.uid, d) \notin attended))

\* Insert e into a sequence sorted by absences descending, after its equals
RECURSIVE InsertByAbsences(_, _)
InsertByAbsences(sorted, e) ==
    IF sorted = <<>> THEN <<e>>
    ELSE IF Head(sorted).absences >= e.absences
         THEN <<Head(sorted)>> \o InsertByAbsences(Tail(sorted), e)
         ELSE <<e>> \o sorted

\* .sort((a, b) => b.absences - a.absences): stable, most absences first
RECURSIVE SortByAbsences(_)
SortByAbsences(seq) ==
    IF seq = <<>> THEN <<>>
    ELSE InsertByAbsences(SortByAbsences(SubSeq(seq, 1, Len(seq) - 1)), seq[Len(seq)])

\* Lines 79-85
StudentsOfSection(students, sec, dates, attended) ==
    LET ofSec == SelectSeq(students, LAMBDA st : st.section = sec)
    IN  SortByAbsences(
            [i \in 1 .. Len(ofSec) |->
                [uid |-> ofSec[i].uid, name |-> ofSec[i].name, email |-> EmailOrEmpty(ofSec[i]),
                 absences |-> Absences(ofSec[i], dates, attended)]])

\* Line 95 reading the present students off the attendance records
PresentListFromRecords(students, att, sec, date) ==
    LET uids == SortStrings({a.uid : a \in {b \in att : b.section = sec /\ b.date = date}})
    IN  [i \in 1 .. Len(uids) |-> [name |-> "", uid |-> uids[i]]]

\* Lines 93-96
PresentList(students, att, sec, date) ==
    LET sectionStudents == SelectSeq(students, LAMBDA st : st.section = sec)
        here == SelectSeq(sectionStudents, LAMBDA st : Key(st.uid, date) \in AttendedSet(att))
    IN  [i \in 1 .. Len(here) |-> [name |-> here[i].name, uid |-> here[i].uid]]

\* Lines 93 and 97-98
AbsentList(students, att, sec, date) ==
    LET sectionStudents == SelectSeq(students, LAMBDA st : st.section = sec)
        away == SelectSeq(sectionStudents, LAMBDA st : Key(st.uid, date) \notin AttendedSet(att))
    IN  [i \in 1 .. Len(away) |->
            [name |-> away[i].name, uid |-> away[i].uid, email |-> EmailOrEmpty(away[i])]]

\* Lines 52-106: the body of the 200 response
BuildReport(students, att) ==
    LET dates == SortStrings(DateSet(att))
    IN  [dates |-> dates,
         sections |-> [sec \in SectionCodes |->
                          [i \in 1 .. Len(dates) |-> SectionCount(att, sec, dates[i])]],
         rosterTotals |-> [sec \in SectionCodes |-> RosterTotal(students, sec)],
         studentsBySection |-> [sec \in SectionCodes |->
                          StudentsOfSection(students, sec, dates, AttendedSet(att))],
         details |-> [d \in DateSet(att) |-> [sec \in SectionCodes |->
                          [present |-> PresentList(students, att, sec, d),
                           absent |-> AbsentList(students, att, sec, d)]]]]

-----------------------------------------------------------------------------
(* One invocation of the stats handler, cut at its awaits                  *)

\* Lines 13-36: the request arrives and its credentials are checked
StatsReceive(headers) ==
    /\ stats.pc = "idle"
    /\ \E header \in headers :
         LET v == AuthCheck(header)
         IN  stats' = [stats EXCEPT !.pc = IF v.statusCode = 0 THEN "getDb" ELSE "done",
                                    !.header = header, !.resp = v]
    /\ UNCHANGED <<roster, attendance, indexes, cachedClient, env, clock, req>>

\* Lines 5-11 and 38
StatsGetDb ==
    /\ stats.pc = "getDb"
    /\ stats' = [stats EXCEPT !.pc = "students", !.ops = Append(@, "connect")]
    /\ UNCHANGED <<roster, attendance, indexes, cachedClient, env, clock, req>>

\* Lines 41-44: students.find({}).toArray()
StatsReadStudents ==
    /\ stats.pc = "students"
    /\ stats' = [stats EXCEPT !.pc = "attendance", !.students = roster,
                              !.ops = Append(@, "students.find")]
    /\ UNCHANGED <<roster, attendance, indexes, cachedClient, env, clock, req>>

\* Lines 47-107: attendance.find({}).toArray(), then the report
StatsReadAttendance ==
    /\ stats.pc = "attendance"
    /\ stats' = [stats EXCEPT !.pc = "done", !.ops = Append(@, "attendance.find"),
                              !.resp = [statusCode |-> 200, wwwAuthenticate |-> "",
                                        body |-> "report", thrown |-> "",
                                        report |-> BuildReport(stats.students, attendance)]]
    /\ UNCHANGED <<roster, attendance, indexes, cachedClient, env, clock, req>>

\* A store operation of lines 38-50 fails; the handler throws it on
StatsStoreError ==
    /\ stats.pc \in {"getDb", "students", "attendance"}
    /\ stats' = [stats EXCEPT !.pc = "done", !.resp.thrown = "StoreError"]
    /\ UNCHANGED <<roster, attendance, indexes, cachedClient, env, clock, req>>

-----------------------------------------------------------------------------
(* SpecStats: one stats request over rosters and attendance collections    *)
(* that keep (uid, date) unique                                            *)

\* Most attendance records in the collection
MaxRecords == 3

StatsDates == {DateStr(getEasternTimeParts(At(d, 12, 0), FALSE)) : d \in {1, 8}}

\* Attendance documents: students 1 and 2 and an identity no roster holds; the
\* configured sections and one that is not configured
RecordPool ==
    {[_id |-> 0, uid |-> u, date |-> d, section |-> sec, timestamp |-> At(1, 12, 0)] :
        u \in {<<"1">>, <<"2">>, <<"9">>}, d \in StatsDates, sec \in {"0201", "0202", "0204"}}

StatsStores ==
    {S \in SUBSET RecordPool :
        /\ Cardinality(S) <= MaxRecords
        /\ \A a \in S, b \in S : (a.uid = b.uid /\ a.date = b.date) => a = b}

StudentPool ==
    {Student(<<"1">>, "Ada", sec, Txt("ada@umd.edu")) : sec \in {"0201", "0202", "0204"}}
      \cup {Student(<<"2">>, "Ben", sec, Undef) : sec \in {"0201", "0202", "0204"}}

\* Rosters: identity is unique; the order of the documents is the store's
StatsRosters ==
    {<<>>} \cup {<<a>> : a \in StudentPool}
      \cup {p \in StudentPool \X StudentPool : p[1].uid # p[2].uid}

AuthHeaders ==
    {[scheme |-> "", decoded |-> <<>>], [scheme |-> "Bearer ", decoded |-> <<"t", "a", ":", "p", ":", "w">>],
     [scheme |-> "Basic ", decoded |-> <<"t", "a", ":", "p", ":", "w">>],
     [scheme |-> "Basic ", decoded |-> <<"t", "a", ":", "p">>],
     [scheme |-> "Basic ", decoded |-> <<"a", ":", "p", ":", "w">>],
     [scheme |-> "Basic ", decoded |-> <<"t", "a">>],
     [scheme |-> "Basic ", decoded |-> <<>>]}

InitStats ==
    /\ roster \in StatsRosters
    /\ attendance \in StatsStores
    /\ indexes = {AttendanceIndexes[i] : i \in 1 .. 2}
    /\ cachedClient = FALSE
    /\ env \in {e \in Envs : ~e.h24 /\ e.DEV_BYPASS_TIME = ""}
    /\ clock = At(8, 12, 0)
    /\ req = [r \in Reqs |-> Idle]
    /\ stats = StatsStart

NextStats ==
    \/ StatsReceive(AuthHeaders)
    \/ StatsGetDb
    \/ StatsReadStudents
    \/ StatsReadAttendance
    \/ StatsStoreError

SpecStats == InitStats /\ [][NextStats]_vars

-----------------------------------------------------------------------------
(* Properties of the submission handler                                    *)

Done(r) == req[r].pc = "done"
Returned(r, code) == Done(r) /\ req[r].resp.thrown = "" /\ req[r].resp.statusCode = code
IsSubmission(r) ==
    req[r].pc # "idle" /\ req[r].event.httpMethod = "POST" /\ req[r].event.body.kind = "object"
KeyOf(r) == <<req[r].event.body.uid.val, req[r].dateStr>>
BypassOff == env.DEV_BYPASS_TIME # "true"

\* C1: the attendance store never holds two records with one (identity, date);
\* of the submissions for one identity and date that return, exactly one
\* returns 200 (and its record is the one stored) and every other returns 409.
C1_OneRecordPerIdentityDate ==
    /\ \A a \in attendance, b \in attendance :
         (a.uid = b.uid /\ a.date = b.date) => a = b
    /\ \A r \in Reqs : Returned(r, 200) =>
         /\ \E d \in attendance : d._id = r /\ <<d.uid, d.date>> = KeyOf(r)
         /\ \A q \in Reqs \ {r} : Returned(q, 200) => KeyOf(q) # KeyOf(r)
    /\ \A r \in Reqs : Returned(r, 409) =>
         \E q \in Reqs \ {r} : Returned(q, 200) /\ KeyOf(q) = KeyOf(r)

\* C1 witness: two submissions for one identity and date were in flight
\* together; one returned 200 and the other 409.
C1_Witness ==
    \E r \in Reqs, q \in Reqs :
        /\ q \in req[r].overlap
        /\ KeyOf(q) = KeyOf(r)
        /\ \/ Returned(q, 200) /\ Returned(r, 409)
           \/ Returned(r, 200) /\ Returned(q, 409)
        /\ Cardinality(attendance) = 1

Completes(r) == req[r].pc # "done" /\ req'[r].pc = "done"
Completes200(r) == Completes(r) /\ req'[r].resp.thrown = "" /\ req'[r].resp.statusCode = 200

\* C2: the step on which a submission returns 200 adds exactly one record
\* {identity, date, section, timestamp} of that submission to the store; a step
\* on which one returns 405, 400 or 409 changes no record; no other step of a
\* handler changes a record; the roster never changes.
C2_NoPartialSuccess ==
    [][/\ roster' = roster
       /\ \A r \in Reqs : Completes200(r) =>
            \E d \in attendance' \ attendance :
                /\ attendance' = attendance \cup {d}
                /\ d.uid = req[r].event.body.uid.val
                /\ d.date = req'[r].resp.date
                /\ d.section = req[r].event.body.section.val
                /\ d.timestamp = req[r].now
       /\ \A r \in Reqs :
            (Completes(r) /\ req'[r].resp.statusCode \in {400, 405, 409})
                => attendance' = attendance
       /\ (\A r \in Reqs : ~Completes200(r)) => attendance' = attendance]_vars

\* C2 witness: one submission has returned 200 and its record is stored, and
\* another has returned 409 with the store holding that one record only.
C2_Witness ==
    \E r \in Reqs, q \in Reqs :
        /\ Returned(r, 200) /\ Returned(q, 409)
        /\ Cardinality(attendance) = 1
        /\ \E d \in attendance : d._id = r

(* The checks of the validator as its contract lists them *)
InRoster(uid) == \E i \in 1 .. Len(roster) : roster[i].uid = uid
RosterSection(uid) ==
    roster[CHOOSE i \in 1 .. Len(roster) : roster[i].uid = uid].section
IsFriday(t) == t.day % 7 = 1
MinuteOfDay(t) == t.hour * 60 + t.minute
InWindow(section, t) ==
    /\ WINDOWS[section].start * 60 <= MinuteOfDay(t)
    /\ MinuteOfDay(t) < WINDOWS[section].end * 60
WindowError(section) ==
    Fail(400, <<"Outside attendance window for section", section,
                Num(WINDOWS[section].start), Num(WINDOWS[section].end)>>)
AlreadyRecorded(r) ==
    \E d \in attendance : d._id # r /\ <<d.uid, d.date>> = KeyOf(r)

\* What the contract's order of checks gives for submission r
ContractResponse(r) ==
    LET uid == req[r].event.body.uid
        section == req[r].event.body.section
    IN  IF Falsy(uid) \/ Falsy(section) THEN Fail(400, ErrMissing)
        ELSE IF ~TestDigitsOnly(uid.val) THEN Fail(400, ErrNumeric)
        ELSE IF section.val \notin SectionCodes THEN Fail(400, ErrSection)
        ELSE IF BypassOff /\ ~IsFriday(req[r].now) THEN Fail(400, ErrFriday)
        ELSE IF BypassOff /\ ~InWindow(section.val, req[r].now) THEN WindowError(section.val)
        ELSE IF ~InRoster(uid.val) THEN Fail(400, ErrRoster)
        ELSE IF RosterSection(uid.val) # section.val THEN Fail(400, ErrMismatch)
        ELSE IF AlreadyRecorded(r) THEN Fail(409, ErrDuplicate)
        ELSE Success(req[r].dateStr)

\* C3: every submission that returns, returns the error of the earliest failing
\* check in the order missing field, non-numeric identity, unconfigured section,
\* not Friday, outside the window, not in roster, section mismatch, duplicate.
C3_FirstFailingCheckWins ==
    \A r \in Reqs :
        (IsSubmission(r) /\ Done(r) /\ req[r].resp.thrown = "")
            => req[r].resp = ContractResponse(r)

\* C4 as claimed: with the bypass off, every otherwise-valid submission (a
\* roster student, their own section) at an instant whose minute of day is
\* outside the section's window returns the window error.
C4_OutsideWindowIsWindowError ==
    \A r \in Reqs :
        (/\ IsSubmission(r) /\ Done(r) /\ BypassOff
         /\ req[r].event.body.uid.type = "chars" /\ InRoster(req[r].event.body.uid.val)
         /\ req[r].event.body.section.type = "text"
         /\ req[r].event.body.section.val = RosterSection(req[r].event.body.uid.val)
         /\ ~InWindow(req[r].event.body.section.val, req[r].now))
            => req[r].resp = WindowError(req[r].event.body.section.val)

PassesFieldChecks(r) ==
    /\ IsSubmission(r)
    /\ ~Falsy(req[r].event.body.uid) /\ ~Falsy(req[r].event.body.section)
    /\ TestDigitsOnly(req[r].event.body.uid.val)
    /\ req[r].event.body.section.val \in SectionCodes

\* C4 amended: with the bypass off, a submission made on a Friday that passes
\* the field checks (identity present and digits only, section configured)
\* returns the window error of its section exactly when the minute of day is
\* outside [start:00, end:00); at start:00 an otherwise-valid one returns 200.
\* On any other weekday such a submission returns the Friday error.
C4_WindowHalfOpenOnFriday ==
    \A r \in Reqs :
      /\ (PassesFieldChecks(r) /\ Done(r) /\ BypassOff /\ ~IsFriday(req[r].now)) =>
            req[r].resp = Fail(400, ErrFriday)
      /\ (PassesFieldChecks(r) /\ Done(r) /\ BypassOff /\ IsFriday(req[r].now)) =>
            LET section == req[r].event.body.section.val
                uid == req[r].event.body.uid.val
            IN  /\ ~InWindow(section, req[r].now) <=> req[r].resp = WindowError(section)
                /\ (/\ MinuteOfDay(req[r].now) = WINDOWS[section].start * 60
                    /\ InRoster(uid) /\ RosterSection(uid) = section
                    /\ ~AlreadyRecorded(r) /\ req[r].resp.thrown = "")
                        => req[r].resp = Success(req[r].dateStr)
                /\ MinuteOfDay(req[r].now) = WINDOWS[section].end * 60
                        => req[r].resp = WindowError(section)

\* C4 witness: a submission for section 0201 on a Friday at 13:01, one minute
\* past the end of its window, has returned that section's window error.
C4_Witness ==
    \E r \in Reqs :
        /\ Done(r) /\ BypassOff /\ PassesFieldChecks(r)
        /\ req[r].event.body.section.val = "0201"
        /\ req[r].now = At(1, 13, 1)
        /\ req[r].resp = Fail(400, <<"Outside attendance window for section", "0201", Num(12), Num(13)>>)

\* C8: a submission whose identity does not match ^\d+$ is answered at once
\* with 400, and has issued no store operation: no connect, no roster lookup,
\* no index creation, no insert.
C8_NonNumericFailsBeforeStore ==
    \A r \in Reqs :
        (IsSubmission(r) /\ ~TestDigitsOnly(req[r].event.body.uid.val)) =>
            /\ Returned(r, 400)
            /\ req[r].ops = <<>>

\* C8 witness: the submission with identity "1a" has returned "UID must be numeric".
C8_Witness ==
    \E r \in Reqs :
        /\ IsSubmission(r)
        /\ req[r].event.body.uid = Str(<<"1", "a">>)
        /\ req[r].resp = Fail(400, ErrNumeric)
        /\ req[r].ops = <<>>

-----------------------------------------------------------------------------
(* Properties of the stats handler                                         *)

Reported == stats.pc = "done" /\ stats.resp.thrown = "" /\ stats.resp.statusCode = 200
Report == stats.resp.report

RECURSIVE SumSeq(_)
SumSeq(seq) == IF seq = <<>> THEN 0 ELSE Head(seq) + SumSeq(Tail(seq))

Range(seq) == {seq[i] : i \in 1 .. Len(seq)}

\* Every attendance record is of a roster student, in that student's section
RecordsMatchRoster ==
    \A a \in attendance : \E i \in 1 .. Len(roster) :
        roster[i].uid = a.uid /\ roster[i].section = a.section

Orphaned(a) == ~InRoster(a.uid)

\* The identities a report lists: in studentsBySection, and present or absent
ListedBySection(sec) == {e.uid : e \in Range(Report.studentsBySection[sec])}
ListedInDetails(d, sec) ==
    {e.uid : e \in Range(Report.details[d][sec].present)}
        \cup {e.uid : e \in Range(Report.details[d][sec].absent)}

\* C5 as claimed: in every report, for every section code, the counts of
\* sections[code] sum to at most rosterTotals[code] * len(dates).
C5_SectionSumWithinRoster ==
    Reported => \A sec \in SectionCodes :
        SumSeq(Report.sections[sec]) <= Report.rosterTotals[sec] * Len(Report.dates)

\* C5 amended: the bound holds in every report made from a collection whose
\* every record is of a roster student in that student's own section.
C5_SectionSumWithinRosterWhenRecordsMatch ==
    (Reported /\ RecordsMatchRoster) => \A sec \in SectionCodes :
        SumSeq(Report.sections[sec]) <= Report.rosterTotals[sec] * Len(Report.dates)

\* C5 witness: a report over two dates in which both students of section 0201
\* attended at least once, every record matching the roster.
C5_Witness ==
    /\ Reported /\ RecordsMatchRoster
    /\ Len(Report.dates) = 2
    /\ Report.rosterTotals["0201"] = 2
    /\ SumSeq(Report.sections["0201"]) = 3

\* C6 as claimed: an orphaned record is counted in no sections[code], and its
\* identity is in no studentsBySection entry and in no present or absent list.
C6_OrphanExcludedEverywhere ==
    Reported =>
        /\ \A sec \in SectionCodes, i \in 1 .. Len(Report.dates) :
             Report.sections[sec][i] =
                Cardinality({a \in attendance :
                    ~Orphaned(a) /\ a.section = sec /\ a.date = Report.dates[i]})
        /\ \A sec \in SectionCodes, a \in attendance :
             Orphaned(a) => a.uid \notin ListedBySection(sec)
        /\ \A sec \in SectionCodes, d \in DOMAIN Report.details, a \in attendance :
             Orphaned(a) => a.uid \notin ListedInDetails(d, sec)

\* C6 amended: a report lists roster students only, so an orphaned record's
\* identity is in no studentsBySection entry and in no present or absent list,
\* and no error is raised; the record is still counted in sections[code] of
\* its own section and date, and its date is one of dates.
C6_OrphanCountedButNotListed ==
    Reported =>
        /\ \A sec \in SectionCodes, i \in 1 .. Len(Report.dates) :
             Report.sections[sec][i] =
                Cardinality({a \in attendance : a.section = sec /\ a.date = Report.dates[i]})
        /\ \A a \in attendance : a.date \in Range(Report.dates)
        /\ \A sec \in SectionCodes : \A u \in ListedBySection(sec) : InRoster(u)
        /\ \A sec \in SectionCodes, d \in DOMAIN Report.details :
             \A u \in ListedInDetails(d, sec) : InRoster(u)

\* C6 witness: the only record is of identity 9, which no roster holds, in
\* section 0201; the report counts one for 0201 on its date and lists no 9.
C6_Witness ==
    /\ Reported
    /\ Len(roster) = 2
    /\ \E a \in attendance :
         /\ attendance = {a} /\ Orphaned(a) /\ a.section = "0201"
         /\ Report.dates = <<a.date>>
         /\ Report.sections["0201"] = <<1>>
         /\ \A sec \in SectionCodes : a.uid \notin ListedBySection(sec) \cup ListedInDetails(a.date, sec)

Configured(sec) == sec \in SectionCodes

ValidCredentials(header) ==
    /\ header.scheme = "Basic "
    /\ header.decoded = env.ADMIN_USER \o <<":">> \o env.ADMIN_PASS

\* C9: a stats request whose header is not "Basic " followed by the configured
\* user:password pair is answered 401 with the WWW-Authenticate challenge, and
\* has issued no store read; a request that has read the store or got the
\* report carried the configured pair.
C9_RejectedBeforeAnyRead ==
    /\ (stats.pc # "idle" /\ ~ValidCredentials(stats.header)) =>
         /\ stats.pc = "done"
         /\ stats.resp.statusCode = 401
         /\ stats.resp.wwwAuthenticate = "Basic realm=\"TA Dashboard\""
         /\ stats.resp.report = <<>>
         /\ stats.ops = <<>>
    /\ (stats.ops # <<>> \/ stats.resp.statusCode = 200) => ValidCredentials(stats.header)

\* C9 witness: the request with the right user and a prefix of the password
\* has been answered 401 "Invalid credentials" with no store read.
C9_Witness ==
    /\ stats.pc = "done"
    /\ stats.header = [scheme |-> "Basic ", decoded |-> <<"t", "a", ":", "p">>]
    /\ stats.resp.statusCode = 401
    /\ stats.resp.body = "Invalid credentials"
    /\ stats.ops = <<>>

DatesAttended(uid) == {d \in Range(Report.dates) : \E a \in attendance : a.uid = uid /\ a.date = d}

\* C10: in every report each student listed in studentsBySection[code] has
\* absences = len(dates) - (number of those dates with a record of the student),
\* every roster student of a configured section is listed once in its section,
\* and with no attendance record dates is empty, every sections[code] is empty
\* and every absence count is 0.
C10_AbsencesAreDatesMissed ==
    Reported =>
        /\ \A sec \in SectionCodes :
             /\ \A e \in Range(Report.studentsBySection[sec]) :
                  e.absences = Len(Report.dates) - Cardinality(DatesAttended(e.uid))
             /\ Len(Report.studentsBySection[sec]) = Report.rosterTotals[sec]
             /\ \A i \in 1 .. Len(roster) :
                  roster[i].section = sec => roster[i].uid \in ListedBySection(sec)
        /\ Len(Report.dates) = Cardinality(Range(Report.dates))
        /\ attendance = {} =>
             /\ Report.dates = <<>>
             /\ \A sec \in SectionCodes :
                  /\ Report.sections[sec] = <<>>
                  /\ \A e \in Range(Report.studentsBySection[sec]) : e.absences = 0

\* C10 witness: over two dates, a student of section 0201 attended one and has
\* 1 absence, and is ranked after a student of the section with 2 absences.
C10_Witness ==
    /\ Reported
    /\ Len(Report.dates) = 2
    /\ Len(Report.studentsBySection["0201"]) = 2
    /\ Report.studentsBySection["0201"][1].absences = 2
    /\ Report.studentsBySection["0201"][2].absences = 1
    /\ Cardinality(DatesAttended(Report.studentsBySection["0201"][2].uid)) = 1

-----------------------------------------------------------------------------
(* C11: after any submissions against the unchanged roster, starting from  *)
(* an empty attendance store, every attendance record has an identity that *)
(* is in the roster and the section of that roster student, whether the    *)
(* time bypass is set or not: the validator creates no orphaned and no     *)
(* section-mismatched record.                                              *)
C11_RecordsReferenceRoster ==
    /\ roster = ClassRoster
    /\ \A a \in attendance :
         /\ InRoster(a.uid)
         /\ a.section = RosterSection(a.uid)
         /\ ~Orphaned(a)

\* With the bypass set, on the Saturday: one submission has left its record
\* and another, naming an identity outside the roster or a section that is
\* not the student's, has been turned away after the roster lookup.
C11_Witness ==
    /\ ~BypassOff
    /\ \E r \in Reqs, q \in Reqs :
         /\ Returned(r, 200)
         /\ ~IsFriday(req[r].now)
         /\ NewRecord(r) \in attendance
         /\ Done(q)
         /\ req[q].resp \in {Fail(400, ErrRoster), Fail(400, ErrMismatch)}
         /\ req[q].ops # <<>>

====
